---- MODULE Spec2Model ----
(***************************************************************************)
(* Room-scoped WebSocket relay of kandalgaonkarshubham/websocket-test.     *)
(*                                                                         *)
(* The repository holds three server variants of the same relay; the       *)
(* variable `variant` fixes which one a behaviour runs:                    *)
(*   "do" : src/durable-objects/index.ts  (crossws hooks, activePeers)     *)
(*   "up" : src/unnamed/part_000          (crossws hooks, upgrade hook     *)
(*                                         and peerConnectionData)         *)
(*   "ws" : src/unnamed/part_003          (class WebSockets, sessions map) *)
(*                                                                         *)
(* Strings that the code inspects character by character (chat text,       *)
(* names) are sequences of one-character strings.  The HMAC is an ideal    *)
(* MAC: the tuple of its key and message.  Timestamps are left out of the  *)
(* events.  Handlers run to completion between the suspension points the   *)
(* model keeps: the await of the token verification in the admission path  *)
(* is a suspension point; storage awaits are not (a Durable Object delivers*)
(* no other event while a storage operation is pending).                   *)
(*                                                                         *)
(* crossws itself is not part of the repository.  Its calls are modelled   *)
(* by their documented meaning: peer.subscribe(t) adds t to the peer's     *)
(* topics, peer.publish(t, d) sends d to every OTHER open peer subscribed  *)
(* to t, peer.send(d) sends to the peer, peer.close(code) closes the       *)
(* socket and the close hook runs when the close event is delivered.       *)
(***************************************************************************)
EXTENDS Integers, Sequences, FiniteSets, TLC

\* ---------------------------------------------------------------- bounds
MaxConn == 2

Conns == 1..MaxConn

\* frames a client sends on one connection (client-side queues)
MaxSent == 2

\* -------------------------------------------------------------- constants
MAX_MESSAGE_SIZE == 1024 * 10

\* Every string of the program is a sequence of one-character strings.
Secret == <<"k">>
OtherSecret == <<"x">>

alice == <<"a">>
bob == <<"b">>
d1 == <<"d", "1">>
d2 == <<"d", "2">>
v1 == <<"v">>

Variants == {"do", "up", "ws"}
Emails == {alice, bob}

\* close codes and HTTP statuses the code uses
CodeSuperseded == 4000
CodeInvalid == 1003
CodeTooLarge == 1009

\* ------------------------------------------------------------ pure helpers
IsSpace(ch) == ch \in {" ", "\t", "\n"}

RECURSIVE TrimLeft(_)
TrimLeft(s) == IF s # <<>> /\ IsSpace(Head(s)) THEN TrimLeft(Tail(s)) ELSE s

RECURSIVE TrimRight(_)
TrimRight(s) ==
  IF s # <<>> /\ IsSpace(s[Len(s)]) THEN TrimRight(SubSeq(s, 1, Len(s) - 1)) ELSE s

\* String.prototype.trim
trim(s) == TrimRight(TrimLeft(s))

\* The characters of the model's strings, in code order.
Alphabet ==
  <<"0", "1", "2", "3", "4", "5", "6", "7", "8", "9", ":", "A", "B", "C", "D",
    "E", "F", "_", "a", "b", "c", "d", "e", "f", "g", "k", "v", "x">>

Ord(ch) == CHOOSE i \in 1..Len(Alphabet) : Alphabet[i] = ch

\* `${decisionId}:${verticalKey}:${email}`
DataString(decisionId, verticalKey, email) ==
  decisionId \o <<":">> \o verticalKey \o <<":">> \o email

RECURSIVE Poly(_, _, _)
Poly(s, base, acc) ==
  IF s = <<>> THEN acc
  ELSE Poly(Tail(s), base, (acc * base + Ord(Head(s))) % 256)

\* HMAC-SHA256 keyed by secret over data, as bytes.  The digest is stood
\* for by two bytes of a keyed hash that has no collision on the inputs
\* of the model (an ideal MAC).
Hmac(secret, data) ==
  << Poly(secret \o <<":">> \o data, 31, 7),
     Poly(secret \o <<":">> \o data, 17, 3) >>

HexChars ==
  <<"0", "1", "2", "3", "4", "5", "6", "7", "8", "9", "a", "b", "c", "d", "e", "f">>

\* .digest('hex'): two lower-case hex characters per byte
RECURSIVE toHex(_)
toHex(bytes) ==
  IF bytes = <<>> THEN <<>>
  ELSE <<HexChars[(Head(bytes) \div 16) + 1], HexChars[(Head(bytes) % 16) + 1]>>
       \o toHex(Tail(bytes))

\* the value of a hex digit in either case, -1 for any other character
HexValue(ch) ==
  IF \E i \in 1..16 : HexChars[i] = ch
  THEN (CHOOSE i \in 1..16 : HexChars[i] = ch) - 1
  ELSE IF ch = "A" THEN 10 ELSE IF ch = "B" THEN 11 ELSE IF ch = "C" THEN 12
  ELSE IF ch = "D" THEN 13 ELSE IF ch = "E" THEN 14 ELSE IF ch = "F" THEN 15
  ELSE -1

\* parseInt(byte, 16) stored into a Uint8Array: the longest prefix of hex
\* digits is parsed; NaN (no digit at the front) is stored as 0
parseByte(pair) ==
  IF HexValue(pair[1]) = -1 THEN 0
  ELSE IF Len(pair) = 1 \/ HexValue(pair[2]) = -1 THEN HexValue(pair[1])
  ELSE 16 * HexValue(pair[1]) + HexValue(pair[2])

\* `.` of a regular expression matches every character but a line
\* terminator
IsLineTerminator(ch) == ch \in {"\n", "\r"}

\* tokenHex.match(/.{1,2}/g): the runs of one or two characters that are no
\* line terminators, left to right; <<>> stands for null (no match)
RECURSIVE matchPairs(_)
matchPairs(s) ==
  IF s = <<>> THEN <<>>
  ELSE IF IsLineTerminator(s[1]) THEN matchPairs(Tail(s))
  ELSE IF Len(s) >= 2 /\ ~IsLineTerminator(s[2])
       THEN <<SubSeq(s, 1, 2)>> \o matchPairs(SubSeq(s, 3, Len(s)))
  ELSE <<SubSeq(s, 1, 1)>> \o matchPairs(Tail(s))

\* new Uint8Array(tokenHex.match(/.{1,2}/g)!.map((byte) => parseInt(byte, 16)))
tokenBytes(tokenHex) ==
  [i \in 1..Len(matchPairs(tokenHex)) |-> parseByte(matchPairs(tokenHex)[i])]

\* match() returned null: null.map raises a TypeError
verifyThrows(tokenHex) == matchPairs(tokenHex) = <<>>

\* HMAC-SHA256 over "{decisionId}:{verticalKey}:{email}" keyed by secret, in hex
createHmacToken(decisionId, verticalKey, email, secret) ==
  toHex(Hmac(secret, DataString(decisionId, verticalKey, email)))

NoToken == <<>>

\* faulty verification: any token that is present passes
verifyAnyToken(decisionId, verticalKey, email, tokenHex, secret) ==
  tokenHex # NoToken

\* crypto.subtle.verify('HMAC', key, tokenBytes, data); a call that throws
\* verifies nothing (every caller catches and refuses)
verifyHmacToken(decisionId, verticalKey, email, tokenHex, secret) ==
  /\ ~verifyThrows(tokenHex)
  /\ tokenBytes(tokenHex) = Hmac(secret, DataString(decisionId, verticalKey, email))

\* room = `${decisionId}__${verticalKey}`
RoomKey(decisionId, verticalKey) == decisionId \o <<"_", "_">> \o verticalKey

\* A handshake request: the sec-websocket-protocol header (hdr: present),
\* whether its first entry base64-decodes (b64), the first four fields of
\* decoded.split(':') (<<>>: empty or missing) and the fields after them.
RequestWith(hdr, b64, d, v, e, tok, rest) ==
  [hdr |-> hdr, b64 |-> b64, decisionId |-> d, verticalKey |-> v,
   userEmail |-> e, token |-> tok, rest |-> rest]

Request(d, v, e, tok) == RequestWith(TRUE, TRUE, d, v, e, tok, <<>>)

ValidRequest(d, v, e) == Request(d, v, e, createHmacToken(d, v, e, Secret))

Requests ==
  { ValidRequest(d1, v1, alice),
    ValidRequest(d2, v1, alice),
    ValidRequest(d1, v1, bob),
    \* minted with another secret
    Request(d1, v1, alice, createHmacToken(d1, v1, alice, OtherSecret)),
    \* only three fields
    Request(d1, v1, alice, NoToken) }

NoReq == RequestWith(FALSE, FALSE, <<>>, <<>>, <<>>, NoToken, <<>>)

NoData == [room |-> <<>>, userEmail |-> <<>>, decisionId |-> <<>>, verticalKey |-> <<>>]

\* extractConnectionData: [ok |-> FALSE] stands for every throw
extractConnectionData(request, secret) ==
  IF ~request.hdr THEN [ok |-> FALSE, data |-> NoData]
  ELSE IF ~request.b64 THEN [ok |-> FALSE, data |-> NoData]
  ELSE IF \/ request.decisionId = <<>> \/ request.verticalKey = <<>>
          \/ request.userEmail = <<>> \/ request.token = NoToken
       THEN [ok |-> FALSE, data |-> NoData]
  ELSE IF ~verifyHmacToken(request.decisionId, request.verticalKey,
                           request.userEmail, request.token, secret)
       THEN [ok |-> FALSE, data |-> NoData]
  ELSE [ok |-> TRUE,
        data |-> [room |-> RoomKey(request.decisionId, request.verticalKey),
                  userEmail |-> request.userEmail,
                  decisionId |-> request.decisionId,
                  verticalKey |-> request.verticalKey]]

Rooms == { RoomKey(r.decisionId, r.verticalKey) : r \in Requests }

\* The Durable Object instance that serves a room: the crossws variants bind
\* every connection to the one instance named "crossws"; part_003 routes a
\* request to the instance named after its room (idFromName(room)).
CrosswsInstance == <<"c", "r", "o", "s", "s", "w", "s">>
Instances == Rooms \cup {CrosswsInstance}

\* --------------------------------------------------------------- messages
\* An inbound frame: whether it is a binary frame, whether its text parses
\* as JSON, the parsed `type`, the parsed text/name field (isStr: it is a
\* string; val: its value) and the composition of the frame's text: `ascii`
\* one-byte characters and `wide` characters of one UTF-16 unit and two
\* UTF-8 bytes (such as U+00E9).
Frame(binary, json, type, isStr, val, ascii, wide) ==
  [binary |-> binary, json |-> json, type |-> type, isStr |-> isStr,
   val |-> val, ascii |-> ascii, wide |-> wide]

\* String.prototype.length of the frame's text (UTF-16 code units)
Length(m) == m.ascii + m.wide
\* size of the frame's payload in bytes (UTF-8)
Bytes(m) == m.ascii + 2 * m.wide

Hi == <<"h", "i">>
Blank == <<" ">>
PaddedName == <<" ", "A", " ">>

SmallFrames ==
  { Frame(FALSE, TRUE, "chat", TRUE, Hi, 32, 0),
    Frame(FALSE, TRUE, "chat", TRUE, Blank, 32, 0),
    Frame(FALSE, TRUE, "chat", FALSE, <<>>, 32, 0),
    Frame(FALSE, TRUE, "name", TRUE, PaddedName, 32, 0),
    Frame(FALSE, TRUE, "name", TRUE, Blank, 32, 0),
    Frame(FALSE, TRUE, "name", FALSE, <<>>, 32, 0),
    Frame(FALSE, TRUE, "bogus", TRUE, Hi, 32, 0),
    Frame(FALSE, FALSE, "", FALSE, <<>>, 32, 0),
    Frame(TRUE, TRUE, "chat", TRUE, Hi, 32, 0) }

BoundaryFrames ==
  { Frame(FALSE, TRUE, "chat", TRUE, Hi, MAX_MESSAGE_SIZE, 0),
    Frame(FALSE, TRUE, "chat", TRUE, Hi, MAX_MESSAGE_SIZE + 1, 0),
    Frame(FALSE, TRUE, "chat", TRUE, Hi, MAX_MESSAGE_SIZE - 1, 1),
    Frame(FALSE, FALSE, "", FALSE, <<>>, MAX_MESSAGE_SIZE + 1, 0) }

Frames == SmallFrames \cup BoundaryFrames

\* faulty validation: the text/name field is not inspected
ParseLax(m) ==
  IF ~m.json THEN "invalid"
  ELSE IF m.type \in {"chat", "name"} THEN m.type
  ELSE "invalid"

\* What the message handlers decide about a frame whose size passed:
\* "chat", "name" (valid) or "invalid" (every throw inside the try block).
Parse(m) ==
  IF ~m.json THEN "invalid"
  ELSE IF m.type = "chat"
       THEN IF ~m.isStr \/ Len(trim(m.val)) = 0 THEN "invalid" ELSE "chat"
  ELSE IF m.type = "name"
       THEN IF ~m.isStr \/ Len(trim(m.val)) = 0 THEN "invalid" ELSE "name"
  ELSE "invalid"

\* messageText.length > MAX_MESSAGE_SIZE
TooLarge(m) == Length(m) > MAX_MESSAGE_SIZE

NoEvent ==
  [type |-> "none", userEmail |-> <<>>, userName |-> <<>>, text |-> <<>>,
   decisionId |-> <<>>, verticalKey |-> <<>>]

\* frames whose JSON object also carries identity fields of its own
SpoofFrames ==
  { m @@ [userEmail |-> bob, decisionId |-> d2, verticalKey |-> <<"v", "2">>] :
      m \in { Frame(FALSE, TRUE, "chat", TRUE, Hi, 64, 0),
               Frame(FALSE, TRUE, "name", TRUE, PaddedName, 64, 0) } }

\* faulty event: the fields of the parsed message are spread into it
ChatEventSpread(d, userName, m) ==
  [type |-> "chat",
   userEmail |-> IF "userEmail" \in DOMAIN m THEN m.userEmail ELSE d.userEmail,
   userName |-> userName, text |-> m.val,
   decisionId |-> IF "decisionId" \in DOMAIN m THEN m.decisionId
                  ELSE d.decisionId,
   verticalKey |-> IF "verticalKey" \in DOMAIN m THEN m.verticalKey
                   ELSE d.verticalKey]

\* chatData: text is parsed.text, untrimmed
ChatEvent(d, userName, m) ==
  [type |-> "chat", userEmail |-> d.userEmail, userName |-> userName,
   text |-> m.val, decisionId |-> d.decisionId, verticalKey |-> d.verticalKey]

\* nameData: name is parsed.name.trim() (kept in the userName field)
NameEvent(d, m) ==
  [type |-> "name", userEmail |-> d.userEmail, userName |-> trim(m.val),
   text |-> <<>>, decisionId |-> d.decisionId, verticalKey |-> d.verticalKey]

NoPub ==
  [src |-> 0, room |-> <<>>, ev |-> NoEvent, excludeSelf |-> FALSE,
   to |-> {}, failed |-> {}, registered |-> {}, live |-> {}]

\* ------------------------------------------------------------------ state
VARIABLES
  variant,             \* which of the three server variants runs
  st,                  \* per connection: idle, pending (admission awaiting
                       \* the token verification), upgraded (part_000: the
                       \* upgrade hook returned, open not yet run), open,
                       \* closing (the server called close(), close event
                       \* pending), errored (transport error delivered,
                       \* close event pending), closed, rejected (HTTP)
  accepted,            \* the socket was accepted: the open event fired
  req,                 \* the connection's handshake request
  data,                \* peer.connectionData / sessions.get(ws)
  topics,              \* crossws: the topics the peer subscribed to
  closeCode,           \* the code of the server's close(), 0: none
  status,              \* the HTTP status of a refused upgrade, 0: none
  activePeers,         \* index.ts: Map userEmail -> peer (0: no entry)
  storage,             \* per instance: `name:${userEmail}` -> name (<<>>: none)
  peerConnectionData,  \* part_000: Map tempId -> data; the tempId of a
                       \* connection is the connection's number
  sessions,            \* part_003: the keys of Map sessions, insertion order
  lastRequest,         \* index.ts: the lastRequest field of the Durable
                       \* Object, written by WEBSOCKETS.fetch
  named,               \* per connection: trim of the last name it set while
                       \* it can still receive frames (<<>>: none)
  inbox,               \* per connection: the frames the client sent that
                       \* the server has not handled yet, oldest first
  sentCount,           \* per connection: how many frames the client sent
  awaiting,            \* the message handlers suspended at their storage
                       \* await: [c, m, n], n the frame's number
  seen,                \* seen[k][c]: the number of the last frame of c
                       \* whose event was delivered to k (0: none)
  probe,               \* the last call of a pure function made on its own:
                       \* its name, arguments and result
  overlap,             \* the pairs {c, k} of connections whose open hooks
                       \* were both suspended at the verification await
  published,           \* part_003: the publish calls made, in order: the
                       \* connection whose frame caused the call
  sending,             \* part_003: the publish calls inside their loop:
                       \* [id, room, i, toRemove], i the next entry of
                       \* sessions the loop visits
  received,            \* per connection: the numbers of the publish calls
                       \* whose send to it succeeded, in order of the sends
  client               \* one useWS instance: its refs (loading, status,
                       \* isConnected), wsInstance, the useWebSocket
                       \* instances it created and its connect() calls

vars ==
  <<variant, st, accepted, req, data, topics, closeCode, status, activePeers,
    storage, peerConnectionData, sessions, lastRequest, named, inbox, sentCount, awaiting,
    seen, probe, overlap, published, sending, received, client>>

\* the client-side queues and the suspended handlers; the relay's events
\* of Next deliver a frame and run its handler in one step and leave them
\* alone
queueVars == <<inbox, sentCount, awaiting, seen>>

\* the publish calls taken send by send; the events of Next run a whole
\* fan-out in one step and leave them alone
fanoutVars == <<published, sending, received>>

NoProbe == [fn |-> "none"]

\* useWS(): the refs and variables as the composable initialises them;
\* instance k is the useWebSocket instance the k-th connect() call creates
MaxCalls == 2
MaxChats == 2

Calls == 1..MaxCalls

NoInstance ==
  [state |-> "none", errored |-> FALSE, buffer |-> <<>>, sent |-> <<>>]

NoClient ==
  [loading |-> FALSE, status |-> "DISCONNECTED", isConnected |-> FALSE,
   wsInstance |-> 0, inst |-> [k \in Calls |-> NoInstance],
   pc |-> [k \in Calls |-> "none"], chats |-> 0, disconnects |-> 0,
   final |-> FALSE]

Init ==
  /\ variant \in Variants
  /\ st = [c \in Conns |-> "idle"]
  /\ accepted = [c \in Conns |-> FALSE]
  /\ req = [c \in Conns |-> NoReq]
  /\ data = [c \in Conns |-> NoData]
  /\ topics = [c \in Conns |-> {}]
  /\ closeCode = [c \in Conns |-> 0]
  /\ status = [c \in Conns |-> 0]
  /\ activePeers = [e \in Emails |-> 0]
  /\ storage = [i \in Instances |-> [e \in Emails |-> <<>>]]
  /\ peerConnectionData = [c \in Conns |-> NoData]
  /\ sessions = <<>>
  /\ lastRequest = NoReq
  /\ named = [c \in Conns |-> <<>>]
  /\ inbox = [c \in Conns |-> <<>>]
  /\ sentCount = [c \in Conns |-> 0]
  /\ awaiting = {}
  /\ seen = [k \in Conns |-> [c \in Conns |-> 0]]
  /\ probe = NoProbe
  /\ overlap = {}
  /\ published = <<>>
  /\ sending = {}
  /\ received = [c \in Conns |-> <<>>]
  /\ client = NoClient

\* ---------------------------------------------------------------- helpers
\* The instance whose storage a connection's handlers use.
InstanceOf(c) ==
  IF variant = "ws" THEN RoomKey(req[c].decisionId, req[c].verticalKey)
  ELSE CrosswsInstance

\* storage.get(`name:${userEmail}`) || userEmail
StoredNameOr(c, userEmail) ==
  IF storage[InstanceOf(c)][userEmail] # <<>>
  THEN storage[InstanceOf(c)][userEmail] ELSE userEmail

\* storage.put(`name:${userEmail}`, name)
StoragePut(c, userEmail, name) ==
  [storage EXCEPT ![InstanceOf(c)][userEmail] = name]

\* storage.delete(`name:${userEmail}`)
StorageDelete(c, userEmail) ==
  [storage EXCEPT ![InstanceOf(c)][userEmail] = <<>>]

\* close(code, reason) takes effect on a socket that is accepted and on which
\* close() was not called before; the state and the code after closing the
\* sockets of S with `code`.
Closable(c) == accepted[c] /\ st[c] \in {"pending", "upgraded", "open"}

StAfterClose(S) ==
  [k \in Conns |-> IF k \in S /\ Closable(k) THEN "closing" ELSE st[k]]

CodeAfterClose(S, code) ==
  [k \in Conns |-> IF k \in S /\ Closable(k) THEN code ELSE closeCode[k]]

\* send() succeeds on an open socket and throws once close() was called or
\* the transport failed
CanSend(c) == st[c] = "open"

\* faulty adapter: the 101 response leaves when the socket is accepted, so
\* frames arrive while the open hook awaits the verification
CanReceiveEarly(c) == accepted[c] /\ st[c] \in {"pending", "open", "closing"}

\* a frame can arrive on an accepted socket until the peer has closed; the
\* client sends only once it got the 101 response, which crossws returns
\* after hooks.open has returned
CanReceive(c) == accepted[c] /\ st[c] \in {"open", "closing"}

Remove(seq, S) == SelectSeq(seq, LAMBDA k : k \notin S)

InSessions(c) == \E i \in 1..Len(sessions) : sessions[i] = c

\* ------------------------------------------------------------- registries
\* crossws: the sockets of the instance that subscribed to the topic
Subscribed(room) ==
  { k \in Conns : accepted[k] /\ room \in topics[k]
                  /\ st[k] \in {"open", "closing", "errored"} }

\* part_003: the entries of sessions whose room is `room`
InRoom(room) == { k \in Conns : InSessions(k) /\ data[k].room = room }

Registered(room) == IF variant = "ws" THEN InRoom(room) ELSE Subscribed(room)

Live(room) == { k \in Registered(room) : st[k] = "open" }

\* faulty fan-out: the publisher is not left out
PeerPublishAll(src, room) ==
  { k \in Conns : room \in topics[k] /\ CanSend(k) }

\* crossws peer.publish(topic, data): every other open subscriber
PeerPublish(src, room) ==
  { k \in Conns \ {src} : room \in topics[k] /\ CanSend(k) }

\* faulty fan-out: the loop does not compare rooms
publishAnyRoom(room) ==
  [to |-> { k \in Conns : InSessions(k) /\ CanSend(k) },
   toRemove |-> { k \in Conns : InSessions(k) /\ ~CanSend(k) }]

\* faulty fan-out: the first send that throws ends the loop
RECURSIVE PublishLoopAbort(_, _, _)
PublishLoopAbort(i, room, acc) ==
  IF i > Len(sessions) THEN acc
  ELSE LET ws == sessions[i] IN
       IF data[ws].room # room THEN PublishLoopAbort(i + 1, room, acc)
       ELSE IF CanSend(ws)
            THEN PublishLoopAbort(i + 1, room, [acc EXCEPT !.to = @ \cup {ws}])
            ELSE [acc EXCEPT !.toRemove = @ \cup {ws}]

publishAbort(room) == PublishLoopAbort(1, room, [to |-> {}, toRemove |-> {}])

\* part_003 publish(room, data): the loop over sessions.entries(); a send
\* that throws marks the socket for removal and the loop goes on
RECURSIVE PublishLoop(_, _, _)
PublishLoop(i, room, acc) ==
  IF i > Len(sessions) THEN acc
  ELSE LET ws == sessions[i] IN
       IF data[ws].room # room THEN PublishLoop(i + 1, room, acc)
       ELSE IF CanSend(ws)
            THEN PublishLoop(i + 1, room, [acc EXCEPT !.to = @ \cup {ws}])
            ELSE PublishLoop(i + 1, room, [acc EXCEPT !.toRemove = @ \cup {ws}])

publish(room) == PublishLoop(1, room, [to |-> {}, toRemove |-> {}])

Pub(src, room, ev, excludeSelf, to, failed) ==
  [src |-> src, room |-> room, ev |-> ev, excludeSelf |-> excludeSelf,
   to |-> to, failed |-> failed,
   registered |-> Registered(room), live |-> Live(room)]

\* ----------------------------------------------------------------- actions
\* A client starts a handshake with request r.  index.ts has no upgrade
\* hook: crossws accepts the socket and runs hooks.open, which suspends at
\* the await of extractConnectionData.  part_000 suspends in hooks.upgrade,
\* part_003 in fetch, both before the socket is accepted.
Connect(c, r) ==
  /\ st[c] = "idle"
  /\ IF c = 1 THEN TRUE ELSE st[c - 1] # "idle"
  /\ st' = [st EXCEPT ![c] = "pending"]
  /\ req' = [req EXCEPT ![c] = r]
  /\ accepted' = [accepted EXCEPT ![c] = (variant = "do")]
  /\ lastRequest' = IF variant = "do" THEN r ELSE lastRequest
  /\ UNCHANGED <<variant, data, topics, closeCode, status, activePeers, storage,
                 peerConnectionData, sessions, named>>

\* hooks.open that stores the new peer without looking for an existing one
DoOpenUnchecked(c) ==
  /\ variant = "do"
  /\ st[c] = "pending"
  /\ LET x == extractConnectionData(req[c], Secret)
     IN IF x.ok
        THEN /\ data' = [data EXCEPT ![c] = x.data]
             /\ st' = [st EXCEPT ![c] = "open"]
             /\ activePeers' = [activePeers EXCEPT ![x.data.userEmail] = c]
             /\ topics' = [topics EXCEPT ![c] = @ \cup {x.data.room}]
             /\ UNCHANGED closeCode
        ELSE /\ st' = StAfterClose({c})
             /\ closeCode' = CodeAfterClose({c}, CodeInvalid)
             /\ UNCHANGED <<data, activePeers, topics>>
  /\ UNCHANGED <<variant, lastRequest, accepted, req, status, storage, peerConnectionData,
                 sessions, named>>

\* faulty hook: the peer has no request of its own and the hook reads the
\* object's lastRequest when it resumes
OpenRequestLast(c) == lastRequest

\* const request = peer.request || globalDurableObject?.lastRequest:
\* crossws creates the peer of an upgrade with the upgrade's request
OpenRequest(c) == IF req[c] # NoReq THEN req[c] ELSE lastRequest

\* index.ts hooks.open, from the return of extractConnectionData on
DoOpen(c) ==
  /\ variant = "do"
  /\ st[c] = "pending"
  /\ LET x == extractConnectionData(OpenRequest(c), Secret)
         existing == activePeers[x.data.userEmail]
     IN IF x.ok
        THEN LET old == IF existing # 0 /\ existing # c THEN {existing} ELSE {}
             IN /\ data' = [data EXCEPT ![c] = x.data]
                /\ st' = [StAfterClose(old) EXCEPT ![c] = "open"]
                /\ closeCode' = CodeAfterClose(old, CodeSuperseded)
                /\ activePeers' = [activePeers EXCEPT ![x.data.userEmail] = c]
                /\ topics' = [topics EXCEPT ![c] = @ \cup {x.data.room}]
        ELSE /\ st' = StAfterClose({c})
             /\ closeCode' = CodeAfterClose({c}, CodeInvalid)
             /\ UNCHANGED <<data, activePeers, topics>>
  /\ UNCHANGED <<variant, lastRequest, accepted, req, status, storage, peerConnectionData,
                 sessions, named>>

\* part_000 hooks.upgrade, from the return of extractConnectionData on; the
\* tempId of a connection is the connection's number
UpUpgrade(c) ==
  /\ variant = "up"
  /\ st[c] = "pending"
  /\ LET x == extractConnectionData(req[c], Secret)
     IN IF x.ok
        THEN /\ peerConnectionData' = [peerConnectionData EXCEPT ![c] = x.data]
             /\ st' = [st EXCEPT ![c] = "upgraded"]
             /\ accepted' = [accepted EXCEPT ![c] = TRUE]
             /\ UNCHANGED status
        ELSE /\ st' = [st EXCEPT ![c] = "rejected"]
             /\ status' = [status EXCEPT ![c] = 401]
             /\ UNCHANGED <<peerConnectionData, accepted>>
  /\ UNCHANGED <<variant, lastRequest, req, data, topics, closeCode, activePeers, storage,
                 sessions, named>>

\* part_000 hooks.open: the tempId is read from peer.context, which the
\* adapter may or may not have filled from the upgrade's context (hasTempId).
\* With a tempId the entry is read and deleted; without one, or without an
\* entry, the data comes from a second extraction from peer.request
UpOpen(c, hasTempId) ==
  /\ variant = "up"
  /\ st[c] = "upgraded"
  /\ LET fallback == extractConnectionData(req[c], Secret)
         stored == IF hasTempId THEN peerConnectionData[c] ELSE NoData
         connectionData ==
           IF stored # NoData THEN stored
           ELSE IF fallback.ok THEN fallback.data ELSE NoData
     IN /\ peerConnectionData' =
          IF hasTempId THEN [peerConnectionData EXCEPT ![c] = NoData]
          ELSE peerConnectionData
        /\ IF connectionData = NoData
           THEN /\ st' = StAfterClose({c})
                /\ closeCode' = CodeAfterClose({c}, CodeInvalid)
                /\ UNCHANGED <<data, topics>>
           ELSE /\ data' = [data EXCEPT ![c] = connectionData]
                /\ topics' = [topics EXCEPT ![c] = @ \cup {connectionData.room}]
                /\ st' = [st EXCEPT ![c] = "open"]
                /\ UNCHANGED closeCode
  /\ UNCHANGED <<variant, lastRequest, accepted, req, status, activePeers, storage, sessions,
                 named>>

\* part_003 default.fetch and WebSockets.fetch, from the return of
\* extractConnectionData on (both extract from the same request)
WsFetch(c) ==
  /\ variant = "ws"
  /\ st[c] = "pending"
  /\ LET x == extractConnectionData(req[c], Secret)
     IN IF x.ok
        THEN /\ accepted' = [accepted EXCEPT ![c] = TRUE]
             /\ sessions' = Append(sessions, c)
             /\ data' = [data EXCEPT ![c] = x.data]
             /\ st' = [st EXCEPT ![c] = "open"]
             /\ status' = [status EXCEPT ![c] = 101]
        ELSE /\ st' = [st EXCEPT ![c] = "rejected"]
             /\ status' = [status EXCEPT ![c] = 400]
             /\ UNCHANGED <<accepted, sessions, data>>
  /\ UNCHANGED <<variant, lastRequest, req, topics, closeCode, activePeers, storage,
                 peerConnectionData, named>>

\* What a message handler does with frame m on socket c in the current
\* state: the code it closes c with (0: it does not close), the name it
\* stores (<<>>: none) and what it publishes (NoPub: nothing).
Outcome(code, put, pub) == [close |-> code, put |-> put, pub |-> pub]

\* hooks.message of index.ts and of part_000 (the same code; part_000 also
\* sends the chat event back to the sender: echo).  message.text() decodes
\* a binary frame, so the frame kind plays no part.
HookMessageOutcome(c, m, echo) ==
  LET d == data[c] IN
  IF d = NoData THEN Outcome(CodeInvalid, <<>>, NoPub)
  ELSE IF TooLarge(m) THEN Outcome(CodeTooLarge, <<>>, NoPub)
  ELSE IF Parse(m) = "chat"
  THEN LET userName == StoredNameOr(c, d.userEmail)
           self == IF echo /\ CanSend(c) THEN {c} ELSE {}
       IN Outcome(0, <<>>,
                  Pub(c, d.room, ChatEvent(d, userName, m), ~echo,
                      PeerPublish(c, d.room) \cup self, {}))
  ELSE IF Parse(m) = "name"
  THEN Outcome(0, trim(m.val),
               Pub(c, d.room, NameEvent(d, m), TRUE, PeerPublish(c, d.room), {}))
  ELSE Outcome(CodeInvalid, <<>>, NoPub)

\* faulty handler: no look-up of the socket in sessions before the frame
\* is handled
webSocketMessageUnguarded(c, m) ==
  LET wsData == data[c] IN
  IF m.binary THEN Outcome(CodeInvalid, <<>>, NoPub)
  ELSE IF TooLarge(m) THEN Outcome(CodeTooLarge, <<>>, NoPub)
  ELSE IF Parse(m) = "chat"
  THEN LET out == publish(wsData.room)
       IN Outcome(0, <<>>,
                  Pub(c, wsData.room, ChatEvent(wsData, wsData.userEmail, m),
                      FALSE, out.to, out.toRemove))
  ELSE IF Parse(m) = "name"
  THEN LET out == publish(wsData.room)
       IN Outcome(0, trim(m.val),
                  Pub(c, wsData.room, NameEvent(wsData, m), FALSE,
                      out.to, out.toRemove))
  ELSE Outcome(CodeInvalid, <<>>, NoPub)

\* part_003 WebSockets.webSocketMessage
webSocketMessageOutcome(c, m) ==
  LET wsData == data[c] IN
  IF ~InSessions(c) THEN Outcome(CodeInvalid, <<>>, NoPub)
  ELSE IF m.binary THEN Outcome(CodeInvalid, <<>>, NoPub)
  ELSE IF TooLarge(m) THEN Outcome(CodeTooLarge, <<>>, NoPub)
  ELSE IF Parse(m) = "chat"
  THEN LET userName == StoredNameOr(c, wsData.userEmail)
           out == publish(wsData.room)
       IN Outcome(0, <<>>,
                  Pub(c, wsData.room, ChatEvent(wsData, userName, m), FALSE,
                      out.to, out.toRemove))
  ELSE IF Parse(m) = "name"
  THEN LET out == publish(wsData.room)
       IN Outcome(0, trim(m.val),
                  Pub(c, wsData.room, NameEvent(wsData, m), FALSE,
                      out.to, out.toRemove))
  ELSE Outcome(CodeInvalid, <<>>, NoPub)

\* the handler of the running variant
OnFrame(c, m) ==
  IF variant = "ws" THEN webSocketMessageOutcome(c, m)
  ELSE HookMessageOutcome(c, m, variant = "up")

\* faulty handler: the name of a name frame is stored before it is
\* validated
HandleStoreFirst(c, m) ==
  LET o == OnFrame(c, m)
      early == m.json /\ m.type = "name" /\ m.isStr /\ data[c] # NoData
  IN
  /\ CanReceive(c)
  /\ st' = IF o.close # 0 THEN StAfterClose({c}) ELSE st
  /\ closeCode' = IF o.close # 0 THEN CodeAfterClose({c}, o.close)
                  ELSE closeCode
  /\ storage' = IF early THEN StoragePut(c, data[c].userEmail, m.val)
                ELSE storage
  /\ named' = IF o.put # <<>> THEN [named EXCEPT ![c] = o.put] ELSE named
  /\ sessions' = Remove(sessions, o.pub.failed)
  /\ data' = [k \in Conns |-> IF k \in o.pub.failed THEN NoData ELSE data[k]]
  /\ UNCHANGED <<variant, lastRequest, accepted, req, topics, status, activePeers,
                 peerConnectionData>>

\* The handler's effect on the state: the close, the stored name, and
\* (part_003) the removal from sessions of the sockets whose send threw.
Handle(c, m) ==
  LET o == OnFrame(c, m) IN
  /\ CanReceive(c)
  /\ st' = IF o.close # 0 THEN StAfterClose({c}) ELSE st
  /\ closeCode' = IF o.close # 0 THEN CodeAfterClose({c}, o.close) ELSE closeCode
  /\ storage' = IF o.put # <<>> THEN StoragePut(c, data[c].userEmail, o.put)
                ELSE storage
  /\ named' = IF o.put # <<>> THEN [named EXCEPT ![c] = o.put] ELSE named
  /\ sessions' = Remove(sessions, o.pub.failed)
  /\ data' = [k \in Conns |-> IF k \in o.pub.failed THEN NoData ELSE data[k]]
  /\ UNCHANGED <<variant, lastRequest, accepted, req, topics, status, activePeers,
                 peerConnectionData>>

DoMessage(c, m) == variant = "do" /\ Handle(c, m)

UpMessage(c, m) == variant = "up" /\ Handle(c, m)

webSocketMessage(c, m) == variant = "ws" /\ Handle(c, m)

\* faulty runtime: the close event is delivered for a close of the peer
\* only, never after the server's own close() or a transport error
CanCloseEventPeerOnly(c) == accepted[c] /\ st[c] = "open"

\* the close event reaches the server: the peer closed, the transport
\* dropped, or the close handshake of a server-side close() finished
CanCloseEvent(c) == accepted[c] /\ st[c] \in {"open", "closing", "errored"}

\* a transport error is reported before the close event
CanErrorEvent(c) == accepted[c] /\ st[c] \in {"open", "closing"}

\* Once the close event was handled nothing refers to the socket, its peer
\* object or its request any more: their fields go back to their initial
\* values (the socket keeps `closed` and `accepted`).
Dropped(c) ==
  /\ st' = [st EXCEPT ![c] = "closed"]
  /\ req' = [req EXCEPT ![c] = NoReq]
  /\ data' = [data EXCEPT ![c] = NoData]
  /\ topics' = [topics EXCEPT ![c] = {}]
  /\ closeCode' = [closeCode EXCEPT ![c] = 0]
  /\ status' = [status EXCEPT ![c] = 0]
  /\ named' = [named EXCEPT ![c] = <<>>]

\* After a transport error the socket neither receives nor sends: no close
\* code reaches the client and the socket sets no further name.
Broken(c) ==
  /\ st' = [st EXCEPT ![c] = "errored"]
  /\ closeCode' = [closeCode EXCEPT ![c] = 0]
  /\ named' = [named EXCEPT ![c] = <<>>]

\* index.ts hooks.close
DoClose(c) ==
  /\ variant = "do"
  /\ CanCloseEvent(c)
  /\ IF data[c] # NoData
     THEN /\ activePeers' = [activePeers EXCEPT ![data[c].userEmail] = 0]
          /\ storage' = StorageDelete(c, data[c].userEmail)
     ELSE UNCHANGED <<activePeers, storage>>
  /\ Dropped(c)
  /\ UNCHANGED <<variant, lastRequest, accepted, peerConnectionData, sessions>>

\* index.ts hooks.error
DoError(c) ==
  /\ variant = "do"
  /\ CanErrorEvent(c)
  /\ IF data[c] # NoData
     THEN /\ activePeers' = [activePeers EXCEPT ![data[c].userEmail] = 0]
          /\ storage' = StorageDelete(c, data[c].userEmail)
     ELSE UNCHANGED <<activePeers, storage>>
  /\ Broken(c)
  /\ UNCHANGED <<variant, lastRequest, accepted, req, data, topics, status,
                 peerConnectionData, sessions>>

\* part_000 hooks.close
UpClose(c) ==
  /\ variant = "up"
  /\ CanCloseEvent(c)
  /\ storage' = IF data[c] # NoData
                THEN StorageDelete(c, data[c].userEmail) ELSE storage
  /\ Dropped(c)
  /\ UNCHANGED <<variant, lastRequest, accepted, activePeers, peerConnectionData, sessions>>

\* part_000 hooks.error
UpError(c) ==
  /\ variant = "up"
  /\ CanErrorEvent(c)
  /\ storage' = IF data[c] # NoData
                THEN StorageDelete(c, data[c].userEmail) ELSE storage
  /\ Broken(c)
  /\ UNCHANGED <<variant, lastRequest, accepted, req, data, topics, status, activePeers,
                 peerConnectionData, sessions>>

\* faulty teardown: the socket's entry stays in sessions
webSocketCloseKeep(c) ==
  /\ variant = "ws"
  /\ CanCloseEvent(c)
  /\ storage' = IF InSessions(c) THEN StorageDelete(c, data[c].userEmail)
                ELSE storage
  /\ st' = [st EXCEPT ![c] = "closed"]
  /\ UNCHANGED <<variant, lastRequest, accepted, req, data, topics, closeCode, status,
                 activePeers, peerConnectionData, sessions, named>>

\* part_003 WebSockets.webSocketClose
webSocketClose(c) ==
  /\ variant = "ws"
  /\ CanCloseEvent(c)
  /\ IF InSessions(c)
     THEN /\ storage' = StorageDelete(c, data[c].userEmail)
          /\ sessions' = Remove(sessions, {c})
     ELSE UNCHANGED <<storage, sessions>>
  /\ Dropped(c)
  /\ UNCHANGED <<variant, lastRequest, accepted, activePeers, peerConnectionData>>

\* part_003: a transport error runs the socket's 'error' listener of fetch
\* (sessions.delete) and WebSockets.webSocketError, in either order
webSocketError(c, listenerFirst) ==
  /\ variant = "ws"
  /\ CanErrorEvent(c)
  /\ storage' = IF InSessions(c) /\ ~listenerFirst
                THEN StorageDelete(c, data[c].userEmail) ELSE storage
  /\ sessions' = Remove(sessions, {c})
  /\ data' = [data EXCEPT ![c] = NoData]
  /\ Broken(c)
  /\ UNCHANGED <<variant, lastRequest, accepted, req, topics, status, activePeers,
                 peerConnectionData>>

Next ==
  \/ \E c \in Conns, r \in Requests :
       /\ Connect(c, r)
       /\ UNCHANGED <<queueVars, probe, client, overlap, fanoutVars>>
  \/ \E c \in Conns :
       /\ DoOpen(c)
       /\ UNCHANGED <<queueVars, probe, client, overlap, fanoutVars>>
  \/ \E c \in Conns :
       /\ UpUpgrade(c)
       /\ UNCHANGED <<queueVars, probe, client, overlap, fanoutVars>>
  \/ \E c \in Conns :
       /\ \E hasTempId \in BOOLEAN : UpOpen(c, hasTempId)
       /\ UNCHANGED <<queueVars, probe, client, overlap, fanoutVars>>
  \/ \E c \in Conns :
       /\ WsFetch(c)
       /\ UNCHANGED <<queueVars, probe, client, overlap, fanoutVars>>
  \/ \E c \in Conns, m \in Frames :
       /\ DoMessage(c, m)
       /\ UNCHANGED <<queueVars, probe, client, overlap, fanoutVars>>
  \/ \E c \in Conns, m \in Frames :
       /\ UpMessage(c, m)
       /\ UNCHANGED <<queueVars, probe, client, overlap, fanoutVars>>
  \/ \E c \in Conns, m \in Frames :
       /\ webSocketMessage(c, m)
       /\ UNCHANGED <<queueVars, probe, client, overlap, fanoutVars>>
  \/ \E c \in Conns :
       /\ DoClose(c)
       /\ UNCHANGED <<queueVars, probe, client, overlap, fanoutVars>>
  \/ \E c \in Conns :
       /\ DoError(c)
       /\ UNCHANGED <<queueVars, probe, client, overlap, fanoutVars>>
  \/ \E c \in Conns :
       /\ UpClose(c)
       /\ UNCHANGED <<queueVars, probe, client, overlap, fanoutVars>>
  \/ \E c \in Conns :
       /\ UpError(c)
       /\ UNCHANGED <<queueVars, probe, client, overlap, fanoutVars>>
  \/ \E c \in Conns :
       /\ webSocketClose(c)
       /\ UNCHANGED <<queueVars, probe, client, overlap, fanoutVars>>
  \/ \E c \in Conns, listenerFirst \in BOOLEAN :
       /\ webSocketError(c, listenerFirst)
       /\ UNCHANGED <<queueVars, probe, client, overlap, fanoutVars>>

Spec == Init /\ [][Next]_vars

\* ------------------------------------------------- handlers with awaits
\* The message handlers await a storage operation before they publish
\* (storage.get for chat, storage.put for name).  The steps below keep that
\* await: HandlerBegin runs a handler up to it, HandlerResume from it on.
coreVars ==
  <<variant, st, accepted, req, data, topics, closeCode, status, activePeers,
    storage, peerConnectionData, sessions, lastRequest, named>>

\* the frames the clients of these steps send
SentFrames ==
  { Frame(FALSE, TRUE, "chat", TRUE, Hi, 32, 0),
    Frame(FALSE, TRUE, "name", TRUE, PaddedName, 32, 0),
    Frame(FALSE, FALSE, "", FALSE, <<>>, 32, 0) }

\* no input gate: events are delivered while a storage operation is pending
NoInputGate(c) == TRUE

\* Input gate of a Durable Object: while a storage operation of the object
\* is pending, no other event is delivered to the object.
InputGateOpen(c) == awaiting = {}

\* the client of connection c sends frame m
ClientSend(c, m) ==
  /\ CanReceive(c)
  /\ sentCount[c] < MaxSent
  /\ inbox' = [inbox EXCEPT ![c] = Append(@, m)]
  /\ sentCount' = [sentCount EXCEPT ![c] = @ + 1]
  /\ UNCHANGED <<coreVars, awaiting, seen, probe, client, overlap, fanoutVars>>

\* the oldest frame of c is delivered: the handler closes the socket at
\* once (no await on that path) or suspends at its storage await
HandlerBegin(c) ==
  /\ InputGateOpen(c)
  /\ CanReceive(c)
  /\ inbox[c] # <<>>
  /\ UNCHANGED <<probe, client, overlap, fanoutVars>>
  /\ LET m == Head(inbox[c])
         n == sentCount[c] - Len(inbox[c]) + 1
     IN /\ inbox' = [inbox EXCEPT ![c] = Tail(@)]
        /\ IF OnFrame(c, m).close # 0
           THEN /\ Handle(c, m)
                /\ UNCHANGED <<sentCount, awaiting, seen>>
           ELSE /\ awaiting' = awaiting \cup {[c |-> c, m |-> m, n |-> n]}
                /\ UNCHANGED <<coreVars, sentCount, seen>>

\* the storage operation completed: the handler stores/reads the name and
\* publishes; every recipient gets the event of frame n of connection c
HandlerResume(h) ==
  /\ h \in awaiting
  /\ Handle(h.c, h.m)
  /\ awaiting' = awaiting \ {h}
  /\ seen' = [k \in Conns |->
               IF k \in OnFrame(h.c, h.m).pub.to
               THEN [seen[k] EXCEPT ![h.c] = h.n] ELSE seen[k]]
  /\ UNCHANGED <<inbox, sentCount, probe, client, overlap, fanoutVars>>

\* connection c is gone (transport error or close): what it sent and what
\* it received is forgotten
Forget(c) ==
  /\ inbox' = [inbox EXCEPT ![c] = <<>>]
  /\ sentCount' = [sentCount EXCEPT ![c] = 0]
  /\ seen' = [k \in Conns |->
               IF k = c THEN [x \in Conns |-> 0] ELSE [seen[k] EXCEPT ![c] = 0]]
  /\ UNCHANGED <<awaiting, probe, client, overlap, fanoutVars>>

NextQueue ==
  \/ \E c \in Conns, r \in Requests :
       /\ InputGateOpen(c) /\ Connect(c, r) /\ UNCHANGED <<queueVars, probe, client, overlap, fanoutVars>>
  \/ \E c \in Conns :
       /\ InputGateOpen(c)
       /\ DoOpen(c) \/ UpUpgrade(c) \/ WsFetch(c)
          \/ \E hasTempId \in BOOLEAN : UpOpen(c, hasTempId)
       /\ UNCHANGED <<queueVars, probe, client, overlap, fanoutVars>>
  \/ \E c \in Conns, m \in SentFrames : ClientSend(c, m)
  \/ \E c \in Conns : HandlerBegin(c)
  \/ \E h \in awaiting : HandlerResume(h)
  \/ \E c \in Conns :
       /\ InputGateOpen(c)
       /\ DoClose(c) \/ UpClose(c) \/ webSocketClose(c)
       /\ Forget(c)
  \/ \E c \in Conns, listenerFirst \in BOOLEAN :
       /\ InputGateOpen(c)
       /\ DoError(c) \/ UpError(c) \/ webSocketError(c, listenerFirst)
       /\ Forget(c)

SpecQueue == Init /\ [][NextQueue]_vars

\* ---------------------------------------------------------------- progress
\* The runtime delivers the close event of every socket whose close
\* handshake was started or whose transport failed: the close handler of a
\* connection that can get its close event is not postponed for ever.
CloseEvent(c) ==
  /\ DoClose(c) \/ UpClose(c) \/ webSocketClose(c)
  /\ UNCHANGED <<queueVars, probe, client, overlap, fanoutVars>>

SpecLive == Spec /\ \A c \in Conns : WF_vars(CloseEvent(c))

\* ------------------------------------------------- concurrent admissions
\* hooks.open of index.ts awaits extractConnectionData (which awaits the
\* Web Crypto calls of verifyHmacToken) and touches activePeers only after
\* it.  That await is no storage operation: the open hook of another
\* connection may start and finish while this one is suspended.
\* OpenBegin runs the hook of c up to the await, OpenResume from it on.
Suspended == {k \in Conns : st[k] = "pending"}

OpenBegin(c, r) ==
  /\ variant = "do"
  /\ Connect(c, r)
  /\ overlap' = overlap \cup {{c, k} : k \in Suspended}
  /\ UNCHANGED <<queueVars, probe, client, fanoutVars>>

OpenResume(c) ==
  /\ DoOpen(c)
  /\ UNCHANGED <<queueVars, probe, client, overlap, fanoutVars>>

NextAdmit ==
  \/ \E c \in Conns, r \in Requests : OpenBegin(c, r)
  \/ \E c \in Conns : OpenResume(c)
  \/ \E c \in Conns :
       /\ DoClose(c)
       /\ UNCHANGED <<queueVars, probe, client, overlap, fanoutVars>>
  \/ \E c \in Conns :
       /\ DoError(c)
       /\ UNCHANGED <<queueVars, probe, client, overlap, fanoutVars>>

SpecAdmit == Init /\ [][NextAdmit]_vars

\* ------------------------------------------------- publish, send by send
\* part_003 publish(room, data) is an async function without an await: the
\* loop over sessions.entries() and the removal of toRemove run in one
\* turn of the event loop, and no other handler runs before the loop has
\* ended.  The steps below take the loop one send at a time.
MaxPublish == 2

\* faulty loop: every send yields to the event loop
CanScheduleAlways == TRUE

\* a handler starts or resumes only when no synchronous code is running
CanSchedule == sending = {}

\* the handler of frame m of connection c, from the arrival of the frame
\* to the entry into the loop of publish (the storage await in between
\* keeps the input gate closed)
FanStart(c, m) ==
  LET o == webSocketMessageOutcome(c, m) IN
  /\ variant = "ws"
  /\ CanSchedule
  /\ CanReceive(c)
  /\ Len(published) < MaxPublish
  /\ o.pub # NoPub
  /\ storage' = IF o.put # <<>> THEN StoragePut(c, data[c].userEmail, o.put)
                ELSE storage
  /\ named' = IF o.put # <<>> THEN [named EXCEPT ![c] = o.put] ELSE named
  /\ published' = Append(published, c)
  /\ sending' = sending \cup {[id |-> Len(published) + 1, room |-> data[c].room,
                                i |-> 1, toRemove |-> {}]}
  /\ UNCHANGED <<variant, lastRequest, st, accepted, req, data, topics, closeCode, status,
                 activePeers, peerConnectionData, sessions, received,
                 queueVars, probe, client, overlap>>

\* one turn of the loop of publish: the send to the next entry of sessions
FanSend(l) ==
  /\ l \in sending
  /\ l.i <= Len(sessions)
  /\ LET ws == sessions[l.i]
         hit == data[ws].room = l.room
     IN /\ received' = IF hit /\ CanSend(ws)
                       THEN [received EXCEPT ![ws] = Append(@, l.id)]
                       ELSE received
        /\ sending' = (sending \ {l}) \cup
             {[l EXCEPT !.i = @ + 1,
                        !.toRemove = IF hit /\ ~CanSend(ws) THEN @ \cup {ws}
                                     ELSE @]}
  /\ UNCHANGED <<coreVars, published, queueVars, probe, client, overlap>>

\* the loop has ended: toRemove.forEach((ws) => this.sessions.delete(ws))
FanEnd(l) ==
  /\ l \in sending
  /\ l.i > Len(sessions)
  /\ sessions' = Remove(sessions, l.toRemove)
  /\ data' = [k \in Conns |-> IF k \in l.toRemove THEN NoData ELSE data[k]]
  /\ sending' = sending \ {l}
  /\ UNCHANGED <<variant, lastRequest, st, accepted, req, topics, closeCode, status,
                 activePeers, storage, peerConnectionData, named, published,
                 received, queueVars, probe, client, overlap>>

\* a frame the handler answers by closing the socket: nothing is published
FanReject(c, m) ==
  /\ CanSchedule
  /\ webSocketMessageOutcome(c, m).pub = NoPub
  /\ webSocketMessage(c, m)
  /\ UNCHANGED <<queueVars, probe, client, overlap, fanoutVars>>

NextFanout ==
  \/ \E c \in Conns, r \in Requests :
       /\ variant = "ws" /\ CanSchedule /\ Connect(c, r)
       /\ UNCHANGED <<queueVars, probe, client, overlap, fanoutVars>>
  \/ \E c \in Conns :
       /\ CanSchedule /\ WsFetch(c)
       /\ UNCHANGED <<queueVars, probe, client, overlap, fanoutVars>>
  \/ \E c \in Conns, m \in SentFrames : FanStart(c, m)
  \/ \E l \in sending : FanSend(l)
  \/ \E l \in sending : FanEnd(l)
  \/ \E c \in Conns, m \in SentFrames : FanReject(c, m)
  \/ \E c \in Conns :
       /\ CanSchedule /\ webSocketClose(c)
       /\ UNCHANGED <<queueVars, probe, client, overlap, fanoutVars>>
  \/ \E c \in Conns, listenerFirst \in BOOLEAN :
       /\ CanSchedule /\ webSocketError(c, listenerFirst)
       /\ UNCHANGED <<queueVars, probe, client, overlap, fanoutVars>>

SpecFanout == Init /\ [][NextFanout]_vars

\* --------------------------------------------------------------- the client
\* useWS.ts.  useWebSocket (immediate: false, autoReconnect false) creates
\* no socket until open() is called; send() on an instance whose socket is
\* not open puts the data in the instance's buffer, which is flushed when
\* the socket opens, after the onConnected callback.
clientVars == <<coreVars, queueVars, probe, overlap, fanoutVars>>

\* _sendBuffer() of instance j: the buffered data goes out, in order
sendBuffer(inst, j) ==
  [inst EXCEPT ![j].sent = @ \o inst[j].buffer, ![j].buffer = <<>>]

\* wsInstance.send(data) on instance j: buffered while the socket is not
\* open, otherwise sent after whatever the buffer holds
Send(inst, j, msg) ==
  IF inst[j].state = "open"
  THEN [sendBuffer(inst, j) EXCEPT ![j].sent = Append(@, msg)]
  ELSE [inst EXCEPT ![j].buffer = Append(@, msg)]

\* if (!isConnected.value || !wsInstance) return
MaySend == client.isConnected /\ client.wsInstance # 0

\* connect(), up to the await of the token fetch
connect(k) ==
  /\ client.pc[k] = "none"
  /\ IF k = 1 THEN TRUE ELSE client.pc[k - 1] # "none"
  /\ client' =
       IF client.isConnected \/ client.loading
       THEN [client EXCEPT !.pc[k] = "done"]
       ELSE [client EXCEPT !.pc[k] = "fetch", !.loading = TRUE,
                           !.status = "CONNECTING", !.final = FALSE]
  /\ UNCHANGED clientVars

\* connect(), from the token fetch to the await of the 500 ms delay: the
\* instance is created; a failed fetch goes to catch and finally
connectFetched(k, success) ==
  /\ client.pc[k] = "fetch"
  /\ client' =
       IF success
       THEN [client EXCEPT !.pc[k] = "delay", !.wsInstance = k,
                           !.inst[k].state = "idle"]
       ELSE [client EXCEPT !.pc[k] = "done", !.status = "ERROR",
                           !.loading = FALSE]
  /\ UNCHANGED clientVars

\* connect(), from the delay on: wsInstance.open() on whatever wsInstance
\* holds now (a TypeError when it is null), then finally
connectOpen(k) ==
  /\ client.pc[k] = "delay"
  /\ client' =
       IF client.wsInstance = 0
       THEN [client EXCEPT !.pc[k] = "done", !.status = "ERROR",
                           !.loading = FALSE]
       ELSE [client EXCEPT !.pc[k] = "done", !.loading = FALSE,
                           !.inst[client.wsInstance].state = "connecting"]
  /\ UNCHANGED clientVars

\* the socket of instance i opened: onConnected, which sends the name on
\* whatever wsInstance holds now (a TypeError when it is null, which ends
\* the event handler), then the buffer of i
socketOpened(i) ==
  /\ client.inst[i].state = "connecting"
  /\ LET opened == [client.inst EXCEPT ![i].state = "open"]
     IN client' = [client EXCEPT
          !.isConnected = TRUE, !.status = "CONNECTED",
          !.inst = IF client.wsInstance = 0 THEN opened
                   ELSE sendBuffer(Send(opened, client.wsInstance, "name"), i)]
  /\ UNCHANGED clientVars

\* the socket of instance i reports an error: onError
socketError(i) ==
  /\ client.inst[i].state \in {"connecting", "open", "closing"}
  /\ ~client.inst[i].errored
  /\ client' = [client EXCEPT !.status = "ERROR", !.inst[i].errored = TRUE]
  /\ UNCHANGED clientVars

\* the socket of instance i closed: onDisconnected
socketClosed(i) ==
  /\ client.inst[i].state \in {"connecting", "open", "closing"}
  /\ client' = [client EXCEPT !.isConnected = FALSE,
                              !.status = "DISCONNECTED",
                              !.inst[i].state = "closed"]
  /\ UNCHANGED clientVars

\* the instances after a sendChat(content) or sendMessage(type, payload)
\* made now: both have the same guard and the same send
chatSent ==
  IF MaySend THEN Send(client.inst, client.wsInstance, "chat") ELSE client.inst

\* sendChat(content), sendMessage(type, payload)
sendChat ==
  /\ client.chats < MaxChats
  /\ client' = [client EXCEPT !.chats = @ + 1, !.inst = chatSent]
  /\ UNCHANGED clientVars

\* disconnect()
disconnect ==
  /\ client.disconnects < 1
  /\ LET j == client.wsInstance
         closed == IF j # 0 /\ client.inst[j].state \in {"connecting", "open"}
                   THEN [client.inst EXCEPT ![j].state = "closing"]
                   ELSE client.inst
     IN client' = [client EXCEPT !.wsInstance = 0, !.inst = closed,
                                 !.isConnected = FALSE,
                                 !.status = "DISCONNECTED",
                                 !.disconnects = @ + 1, !.final = TRUE]
  /\ UNCHANGED clientVars

NextClient ==
  \/ \E k \in Calls : connect(k)
  \/ \E k \in Calls, success \in BOOLEAN : connectFetched(k, success)
  \/ \E k \in Calls : connectOpen(k)
  \/ \E i \in Calls : socketOpened(i)
  \/ \E i \in Calls : socketError(i)
  \/ \E i \in Calls : socketClosed(i)
  \/ sendChat
  \/ disconnect

SpecClient == Init /\ [][NextClient]_vars

\* ---------------------------------------------------------- pure functions
\* The pure functions called on their own, on inputs drawn from small sets.
TamperChars == {"0", "1", "a", "A", "d", "D", "f", "F", "g"}

\* s with its i-th character replaced by ch
Replace(s, i, ch) == [s EXCEPT ![i] = ch]

\* verifyHmacToken on the token the issuing endpoint mints for (d, v, e)
\* under mintSecret, with its i-th character replaced by ch
ProbeVerify(d, v, e, mintSecret, secret, i, ch) ==
  LET minted == createHmacToken(d, v, e, mintSecret) IN
  /\ probe = NoProbe
  /\ i \in 1..Len(minted)
  /\ probe' = [fn |-> "verify", minted |-> minted,
               sameSecret |-> (mintSecret = secret),
               tokenHex |-> Replace(minted, i, ch),
               out |-> verifyHmacToken(d, v, e, Replace(minted, i, ch), secret)]
  /\ UNCHANGED <<coreVars, queueVars, overlap, fanoutVars, client>>

\* the requests extractConnectionData is called on: those of the
\* connections and requests malformed in one way each, the token being the
\* one minted for the first three fields
HandshakeProbes ==
  Requests \cup
  { RequestWith(hdr, b64, d, v1, e, createHmacToken(d, v1, e, Secret), rest) :
      hdr \in BOOLEAN, b64 \in BOOLEAN, d \in {<<>>, d1}, e \in {<<>>, alice},
      rest \in {<<>>, <<Hi>>} }

\* extractConnectionData on request r under the server secret
ProbeExtract(r) ==
  /\ probe = NoProbe
  /\ probe' = [fn |-> "extract", request |-> r,
               out |-> extractConnectionData(r, Secret)]
  /\ UNCHANGED <<coreVars, queueVars, overlap, fanoutVars, client>>

\* identifiers a handshake can carry: they cannot hold ":" (the split
\* would cut them) and nothing else is checked
Components ==
  { <<"a">>, <<"b">>, <<"c">>, <<"a", "_", "_", "b">>, <<"b", "_", "_", "c">>,
    <<"a", "_">>, <<"_", "b">> }

\* the room keys of two (decisionId, verticalKey) pairs, each accepted by
\* the handshake with the token minted for it
ProbeRoom(p, q) ==
  /\ probe = NoProbe
  /\ probe' =
       [fn |-> "room", p |-> p, q |-> q,
        accepted |->
          /\ extractConnectionData(ValidRequest(p[1], p[2], alice), Secret).ok
          /\ extractConnectionData(ValidRequest(q[1], q[2], alice), Secret).ok,
        roomP |-> extractConnectionData(ValidRequest(p[1], p[2], alice), Secret).data.room,
        roomQ |-> extractConnectionData(ValidRequest(q[1], q[2], alice), Secret).data.room]
  /\ UNCHANGED <<coreVars, queueVars, overlap, fanoutVars, client>>

\* signature strings of one to four characters: digits of the token
\* minted for (d1, v1, alice), a letter that is no hex digit, a newline
SignChars == {"f", "c", "0", "4", "g", "\n"}

SignStrings ==
  UNION { [1..n -> SignChars] : n \in 1..4 }

IsHex(tokenHex) ==
  /\ Len(tokenHex) % 2 = 0
  /\ \A i \in 1..Len(tokenHex) : HexValue(tokenHex[i]) # -1

\* verifyHmacToken on the signature string tokenHex for (d1, v1, alice)
\* under the server secret
ProbeSign(tokenHex) ==
  /\ probe = NoProbe
  /\ probe' = [fn |-> "sign", tokenHex |-> tokenHex,
               hex |-> IsHex(tokenHex),
               threw |-> verifyThrows(tokenHex),
               out |-> verifyHmacToken(d1, v1, alice, tokenHex, Secret)]
  /\ UNCHANGED <<coreVars, queueVars, overlap, fanoutVars, client>>

NextPure ==
  \/ \E tokenHex \in SignStrings : ProbeSign(tokenHex)
  \/ \E p, q \in Components \X Components : ProbeRoom(p, q)
  \/ \E r \in HandshakeProbes : ProbeExtract(r)
  \/ \E d \in {d1, d2}, e \in Emails, mintSecret \in {Secret, OtherSecret},
        secret \in {Secret, OtherSecret}, i \in 1..4, ch \in TamperChars :
       ProbeVerify(d, v1, e, mintSecret, secret, i, ch)

SpecPure == Init /\ [][NextPure]_vars

\* ------------------------------------------------------------- properties
\* The token of connection c's request is the HMAC of its three fields
\* under the server secret.
Verified(c) ==
  /\ req[c].hdr /\ req[c].b64
  /\ req[c].token =
       createHmacToken(req[c].decisionId, req[c].verticalKey,
                       req[c].userEmail, Secret)

\* c is where some registry of the running variant finds an entry
Registry(c) ==
  \/ topics[c] # {}
  \/ InSessions(c)
  \/ \E e \in Emails : activePeers[e] = c
  \/ data[c] # NoData

\* a frame the protocol does not accept: not JSON, a type other than chat
\* and name, or a text/name field that is missing, not a string or empty
Malformed(m) ==
  \/ ~m.json
  \/ m.type \notin {"chat", "name"}
  \/ ~m.isStr
  \/ Len(trim(m.val)) = 0

\* C1: for any identity, once a second connection for it is registered the
\* first is closed (4000) and exactly one connection of that identity stays
\* registered: no two open connections of a room share an identity.
C1_SingleSession ==
  \A c1, c2 \in Conns :
    ( /\ st[c1] = "open" /\ st[c2] = "open"
      /\ data[c1] # NoData
      /\ data[c1].userEmail = data[c2].userEmail
      /\ data[c1].room = data[c2].room ) => c1 = c2

\* C2: a message published to a room reaches every live connection
\* registered for the room when the sender is not excluded, and every live
\* one but the sender when it is.
C2_FanoutComplete ==
  \A c \in Conns, m \in Frames :
    CanReceive(c) =>
      LET p == OnFrame(c, m).pub IN
      p # NoPub =>
        /\ p.src = c
        /\ p.to = IF p.excludeSelf THEN p.live \ {c} ELSE p.live

\* C2 case: a publish with two live connections in the room reaches both
C2_Witness ==
  \E c \in Conns, m \in Frames :
    /\ CanReceive(c)
    /\ OnFrame(c, m).pub # NoPub
    /\ Cardinality(OnFrame(c, m).pub.live) = 2
    /\ OnFrame(c, m).pub.to = OnFrame(c, m).pub.live

\* C3: a payload published to room r is delivered only to connections
\* registered under r, never to a connection of another room.
C3_RoomIsolation ==
  \A c \in Conns, m \in Frames :
    CanReceive(c) =>
      \A k \in OnFrame(c, m).pub.to :
        /\ data[k].room = OnFrame(c, m).pub.room
        /\ data[c].room = OnFrame(c, m).pub.room

\* C3 case: a publish that is delivered while another room has an open
\* connection
C3_Witness ==
  \E c, k \in Conns, m \in Frames :
    /\ CanReceive(c)
    /\ OnFrame(c, m).pub.to # {}
    /\ st[k] = "open"
    /\ data[k] # NoData
    /\ data[k].room # OnFrame(c, m).pub.room

\* C4: a handshake whose verification fails is refused before the open
\* hook fires (the socket is never accepted), is never registered, and its
\* failure status is none of the close codes 4000, 1009, 1003.
C4_RejectedBeforeOpen ==
  \A c \in Conns :
    (req[c] # NoReq /\ ~Verified(c)) =>
      /\ ~accepted[c]
      /\ ~Registry(c)
      /\ closeCode[c] \notin {CodeSuperseded, CodeTooLarge, CodeInvalid}
      /\ status[c] \notin {CodeSuperseded, CodeTooLarge, CodeInvalid}

\* C5: a connection has a room and an identity, and an entry in a
\* registry, only if its token was verified under the server secret, and
\* they are the request's; no frame of an unverified connection is
\* processed (nothing stored, nothing published).
C5_AuthBeforeSubscription ==
  \A c \in Conns :
    /\ Registry(c) =>
         /\ Verified(c)
         /\ data[c] # NoData =>
              /\ data[c].userEmail = req[c].userEmail
              /\ data[c].room = RoomKey(req[c].decisionId, req[c].verticalKey)
         /\ topics[c] \subseteq {RoomKey(req[c].decisionId, req[c].verticalKey)}
    /\ \A m \in Frames :
         (CanReceive(c) /\ ~Verified(c)) =>
           /\ OnFrame(c, m).pub = NoPub
           /\ OnFrame(c, m).put = <<>>

\* C5 case: a frame can arrive from a connection whose token failed the
\* verification while a verified connection is open in the room it asked for
C5_Witness ==
  \E c, k \in Conns :
    /\ CanReceive(c) /\ ~Verified(c)
    /\ st[k] = "open" /\ Verified(k)
    /\ data[k].room = RoomKey(req[c].decisionId, req[c].verticalKey)

\* C6: the size ceiling counts bytes: a payload of at most 10240 bytes is
\* accepted and a payload of more than 10240 bytes closes the connection
\* with 1009.
C6_ByteCeiling ==
  \A c \in Conns, m \in Frames :
    (CanReceive(c) /\ data[c] # NoData /\ ~m.binary) =>
      (OnFrame(c, m).close = CodeTooLarge <=> Bytes(m) > MAX_MESSAGE_SIZE)

\* C7 (as written): every malformed frame closes the connection with 1003
\* and is not broadcast.
C7_MalformedCloses1003 ==
  \A c \in Conns, m \in Frames :
    (CanReceive(c) /\ Malformed(m)) =>
      /\ OnFrame(c, m).close = CodeInvalid
      /\ OnFrame(c, m).pub = NoPub

\* C7 (amended): every malformed frame within the size ceiling closes the
\* connection with 1003, is not broadcast and stores nothing.
C7_MalformedWithinCeiling ==
  \A c \in Conns, m \in Frames :
    (CanReceive(c) /\ Malformed(m) /\ ~TooLarge(m)) =>
      /\ OnFrame(c, m).close = CodeInvalid
      /\ OnFrame(c, m).pub = NoPub
      /\ OnFrame(c, m).put = <<>>

\* C7 case: a registered, verified connection was closed with 1003 while
\* another connection was open in its room; only the message handler closes
\* a connection that has its data with 1003
C7_Witness ==
  \E c, k \in Conns :
    /\ st[c] = "closing" /\ closeCode[c] = CodeInvalid
    /\ data[c] # NoData
    /\ k # c /\ st[k] = "open" /\ data[k].room = data[c].room

\* C8: after a connection set the name n, every chat it sends carries
\* trim(n) as display name until it sets another name.
C8_NameSticks ==
  \A c \in Conns, m \in Frames :
    (CanReceive(c) /\ named[c] # <<>>
       /\ OnFrame(c, m).pub.ev.type = "chat") =>
      OnFrame(c, m).pub.ev.userName = named[c]

\* C9: a chat of a connection that never set a name carries the
\* connection's verified identity as display name.
C9_DefaultName ==
  \A c \in Conns, m \in Frames :
    (CanReceive(c) /\ named[c] = <<>>
       /\ OnFrame(c, m).pub.ev.type = "chat") =>
      OnFrame(c, m).pub.ev.userName = data[c].userEmail

\* C10: in part_003's publish a send that fails does not end the fan-out:
\* every live connection of the room still receives the payload, and the
\* connections whose send failed are the ones removed from sessions.
C10_FailureIsolation ==
  [][\A c \in Conns, m \in Frames :
       (webSocketMessage(c, m) /\ OnFrame(c, m).pub # NoPub) =>
         LET p == OnFrame(c, m).pub IN
         /\ p.to = p.live
         /\ p.failed = p.registered \ p.live
         /\ \A k \in Conns :
              InSessions(k)' <=> (InSessions(k) /\ k \notin p.failed)]_vars

\* C10 case: sessions holds a socket whose send throws in front of a live
\* socket of the same room
C10_Witness ==
  /\ variant = "ws"
  /\ Len(sessions) = 2
  /\ st[sessions[1]] = "closing"
  /\ st[sessions[2]] = "open"
  /\ data[sessions[1]].room = data[sessions[2]].room

\* a close event is handled for a connection whose error event was handled
TeardownAgain(c) ==
  /\ st[c] = "errored"
  /\ DoClose(c) \/ UpClose(c) \/ webSocketClose(c)

\* C11: when the error event and then the close event fire for the same
\* connection, the second teardown removes nothing: the registries and the
\* stored names are the ones the first teardown left.
C11_IdempotentTeardown ==
  [][\A c \in Conns :
       TeardownAgain(c) =>
         /\ activePeers' = activePeers
         /\ sessions' = sessions
         /\ storage' = storage]_vars

\* C12: the events of one connection's frames reach every recipient that
\* stays connected in the order the frames were sent: the number of the
\* last frame of c delivered to k never goes down while both are connected.
C12_SingleWriterFifo ==
  [][\A k, c \in Conns :
       \/ seen'[k][c] >= seen[k][c]
       \/ st'[k] \in {"errored", "closed"}
       \/ st'[c] \in {"errored", "closed"}]_vars

\* C12 case: another connection received the events of both frames of c
C12_Witness ==
  \E k, c \in Conns : k # c /\ seen[k][c] = 2 /\ st[k] = "open"

\* C13: a publish never fails because of a connection that is being or
\* was torn down (the publishing handler does not close its own socket),
\* and it neither delivers to nor tries to send to a connection whose
\* teardown completed before the publish started.
C13_PublishVsDeregister ==
  \A c \in Conns, m \in Frames :
    (CanReceive(c) /\ OnFrame(c, m).pub # NoPub) =>
      /\ OnFrame(c, m).close = 0
      /\ \A k \in Conns :
           (st[k] = "closed" \/ (variant = "ws" /\ st[k] = "errored")) =>
             k \notin OnFrame(c, m).pub.to \cup OnFrame(c, m).pub.failed

\* C13 case: part_003 publishes while one socket of sessions can no longer
\* be sent to (its teardown is pending) and another socket was torn down
\* and is gone from sessions
C13_Witness ==
  \E c, k \in Conns, m \in Frames :
    /\ variant = "ws"
    /\ CanReceive(c)
    /\ OnFrame(c, m).pub # NoPub
    /\ st[k] = "closed" /\ accepted[k]
    /\ OnFrame(c, m).pub.failed # {}

\* the code a refused handshake ends with: the HTTP status of the refused
\* upgrade, or the close code of the socket closed by the open hook
HandshakeFailureCode(c) == IF status[c] # 0 THEN status[c] ELSE closeCode[c]

\* C14: the codes for an unauthorized handshake, a message too large, an
\* invalid message and a superseded session are pairwise different: no
\* message of a verified connection is answered with the code a refused
\* handshake ended with, and the three close codes differ.
C14_DistinctCodes ==
  /\ Cardinality({CodeSuperseded, CodeTooLarge, CodeInvalid}) = 3
  /\ \A c, k \in Conns, m \in Frames :
       ( /\ req[c] # NoReq /\ ~Verified(c)
         /\ HandshakeFailureCode(c) # 0
         /\ CanReceive(k) /\ Verified(k) /\ data[k] # NoData ) =>
         /\ OnFrame(k, m).close # HandshakeFailureCode(c)
         /\ HandshakeFailureCode(c) # CodeSuperseded

\* the number of positions at which two strings of equal length differ
Differences(s, t) == Cardinality({i \in 1..Len(s) : s[i] # t[i]})

\* C15: verification accepts the token minted for the same inputs and
\* secret, rejects a token minted under another secret, and rejects a
\* minted token in which one character of the hex was changed.
C15_TokenRoundTrip ==
  probe.fn = "verify" =>
    /\ (probe.sameSecret /\ probe.tokenHex = probe.minted) => probe.out
    /\ (~probe.sameSecret /\ probe.tokenHex = probe.minted) => ~probe.out
    /\ (probe.sameSecret /\ Differences(probe.tokenHex, probe.minted) = 1)
         => ~probe.out

\* the header is absent, its first entry does not base64-decode, or the
\* decoded string does not split into exactly four non-empty fields
MalformedHandshake(r) ==
  \/ ~r.hdr
  \/ ~r.b64
  \/ r.decisionId = <<>> \/ r.verticalKey = <<>>
  \/ r.userEmail = <<>> \/ r.token = <<>>
  \/ r.rest # <<>>

\* C16: extraction fails for every malformed handshake, a decoded string
\* of more than four fields included.
C16_MalformedHandshake ==
  (probe.fn = "extract" /\ MalformedHandshake(probe.request)) => ~probe.out.ok

\* C17: two different (decisionId, verticalKey) pairs that the handshake
\* accepts never get the same room key.
C17_RoomKeyInjective ==
  (probe.fn = "room" /\ probe.accepted /\ probe.p # probe.q) =>
    probe.roomP # probe.roomQ

\* C18: a binary frame on a subscribed connection closes the connection
\* and is neither parsed, stored nor broadcast.
C18_BinaryCloses ==
  \A c \in Conns, m \in Frames :
    (CanReceive(c) /\ data[c] # NoData /\ m.binary) =>
      /\ OnFrame(c, m).close # 0
      /\ OnFrame(c, m).pub = NoPub
      /\ OnFrame(c, m).put = <<>>

\* connection c is admitted, refused or torn down
RoomStep(c) ==
  \/ DoOpen(c) \/ UpUpgrade(c) \/ WsFetch(c)
  \/ \E hasTempId \in BOOLEAN : UpOpen(c, hasTempId)
  \/ DoClose(c) \/ DoError(c) \/ UpClose(c) \/ UpError(c)
  \/ webSocketClose(c) \/ \E listenerFirst \in BOOLEAN : webSocketError(c, listenerFirst)

\* C19: admitting, superseding or tearing down a connection of room A
\* leaves every connection of another room B open and registered, also
\* when both carry the same identity; a connection is in the registry of
\* at most one room.
C19_RoomsIndependent ==
  [][\A c, k \in Conns :
       ( /\ RoomStep(c) /\ k # c
         /\ st[k] = "open"
         /\ data[k].room # RoomKey(req[c].decisionId, req[c].verticalKey) ) =>
         /\ st'[k] = "open"
         /\ data'[k] = data[k]
         /\ topics'[k] = topics[k] /\ Cardinality(topics[k]) <= 1
         /\ InSessions(k)' <=> InSessions(k)
         /\ \A e \in Emails : activePeers[e] = k => activePeers'[e] = k]_vars

\* the open hooks of c and k were suspended together, both requests carry
\* the same identity for the same room with the token minted for it, both
\* hooks ran to their end and neither connection was torn down since
AdmittedTogether(c, k) ==
  /\ c # k /\ {c, k} \in overlap
  /\ Verified(c) /\ Verified(k)
  /\ req[c].userEmail = req[k].userEmail
  /\ RoomKey(req[c].decisionId, req[c].verticalKey) =
       RoomKey(req[k].decisionId, req[k].verticalKey)
  /\ st[c] \in {"open", "closing"} /\ st[k] \in {"open", "closing"}

\* no connection other than c and k was admitted with the identity e
OnlyTwo(c, k, e) ==
  \A j \in Conns \ {c, k} :
    \/ st[j] \in {"idle", "pending"}
    \/ st[j] # "closed" /\ req[j].userEmail # e

\* C20: of two admissions with the same identity in the same room whose
\* verifications were pending together, the one that resumes second finds
\* the entry of the first: the first is closed with the supersession code
\* and exactly one of the two stays open and registered.
C20_AtomicAdmission ==
  \A c, k \in Conns :
    (AdmittedTogether(c, k) /\ OnlyTwo(c, k, req[c].userEmail)) =>
      \E w \in {c, k} :
        LET l == IF w = c THEN k ELSE c IN
        /\ st[w] = "open" /\ activePeers[req[c].userEmail] = w
        /\ topics[w] = {data[w].room}
        /\ st[l] = "closing" /\ closeCode[l] = CodeSuperseded

C20_Witness ==
  \E c, k \in Conns :
    /\ AdmittedTogether(c, k) /\ OnlyTwo(c, k, req[c].userEmail)
    /\ st[c] = "closing" /\ closeCode[c] = CodeSuperseded
    /\ st[k] = "open" /\ activePeers[req[k].userEmail] = k

\* C21: a connection closed by the handler (too large, invalid,
\* superseded) or hit by a transport error is eventually closed and out of
\* every registry; a closed connection is in no registry, and no publish
\* delivers to a connection that is not open.
C21_TeardownHappens ==
  /\ \A c \in Conns :
       (st[c] \in {"closing", "errored"}) ~> (st[c] = "closed" /\ ~Registry(c))
  /\ [](\A c \in Conns : st[c] = "closed" => ~Registry(c))
  /\ [](\A c, k \in Conns, m \in Frames :
          (CanReceive(c) /\ st[k] # "open") => k \notin OnFrame(c, m).pub.to)

C21_Witness ==
  \E c \in Conns :
    /\ st[c] = "closing" /\ closeCode[c] = CodeTooLarge /\ Registry(c)
    /\ \E k \in Conns : k # c /\ st[k] = "open" /\ data[k].room = data[c].room

\* the lifecycle state of the spec a connection is in: 1 PENDING_AUTH,
\* 2 SUBSCRIBED, 3 CLOSING, 4 CLOSED; 0: no handshake yet, 5: the
\* handshake was refused with an HTTP status (no connection ever existed)
Phase(s) ==
  CASE s = "idle" -> 0
    [] s \in {"pending", "upgraded"} -> 1
    [] s = "open" -> 2
    [] s \in {"closing", "errored"} -> 3
    [] s = "closed" -> 4
    [] s = "rejected" -> 5

\* the moves of the state machine; the close event of an open connection
\* runs the teardown (CLOSING) to its end (CLOSED) in one handler
LifecycleMoves ==
  {<<0, 1>>, <<1, 2>>, <<2, 3>>, <<3, 4>>, <<2, 4>>, <<1, 5>>}

\* C22: a connection moves along PENDING_AUTH, SUBSCRIBED, CLOSING, CLOSED
\* only, without skipping SUBSCRIBED and without going back; frames neither
\* reach nor leave a connection whose authentication is pending; CLOSED is
\* terminal.
C22_LifecycleOrder ==
  [][\A c \in Conns :
       /\ \/ Phase(st'[c]) = Phase(st[c])
          \/ <<Phase(st[c]), Phase(st'[c])>> \in LifecycleMoves
       /\ Phase(st[c]) = 1 => ~CanReceive(c) /\ ~CanSend(c)
       /\ st[c] = "closed" => st'[c] = "closed"]_vars

\* the handler of c finds no connection data: peer.connectionData is unset
\* (index.ts, part_000), sessions has no entry for the socket (part_003)
NoConnectionData(c) ==
  IF variant = "ws" THEN ~InSessions(c) ELSE data[c] = NoData

\* C23: a frame that arrives on a connection without registered
\* connection data closes the connection; nothing is published and no
\* name is stored.
C23_OnlyWhenSubscribed ==
  \A c \in Conns, m \in Frames :
    (CanReceive(c) /\ NoConnectionData(c)) =>
      /\ OnFrame(c, m).close = CodeInvalid
      /\ OnFrame(c, m).pub = NoPub
      /\ OnFrame(c, m).put = <<>>

C23_Witness ==
  \E c \in Conns, m \in Frames :
    /\ variant = "ws" /\ CanReceive(c) /\ NoConnectionData(c)
    /\ ~m.binary /\ ~TooLarge(m) /\ Parse(m) \in {"chat", "name"}
    /\ OnFrame(c, m).close = CodeInvalid

\* no handshake and no teardown is under way
Quiescent == \A c \in Conns : st[c] \in {"idle", "open", "closed", "rejected"}

\* C24: on every path on which a connection leaves the registry its stored
\* display name is deleted: in a quiescent state a name is stored only for
\* an identity that has a live connection on that instance.
C24_NameCleanedUp ==
  Quiescent =>
    \A i \in Instances, e \in Emails :
      storage[i][e] # <<>> =>
        \E c \in Conns :
          st[c] = "open" /\ data[c] # NoData /\ data[c].userEmail = e
          /\ InstanceOf(c) = i

\* event a is before event b in the log of connection k
Before(k, a, b) ==
  \E i, j \in 1..Len(received[k]) :
    i < j /\ received[k][i] = a /\ received[k][j] = b

\* C25: at most one publish call is inside its loop, so the sends of two
\* calls never interleave, and two connections that both received the
\* events of two calls received them in the same order.
C25_PublishNotInterleaved ==
  /\ Cardinality(sending) <= 1
  /\ \A k1, k2 \in Conns, a, b \in 1..Len(published) :
       ~(Before(k1, a, b) /\ Before(k2, b, a))

C25_Witness ==
  \E k1, k2 \in Conns :
    /\ k1 # k2 /\ Len(published) = 2 /\ published[1] # published[2]
    /\ received[k1] = <<1, 2>> /\ received[k2] = <<1, 2>>

\* what the handshake of connection c verified
Handshake(c) == extractConnectionData(req[c], Secret)

\* C26: every chat or name event a connection broadcasts carries the
\* identity, decisionId and verticalKey its handshake verified, whatever
\* fields the inbound frame has, and the connection's data never changes
\* while it has any.
C26_VerifiedIdentity ==
  /\ [](\A c \in Conns, m \in Frames \cup SpoofFrames :
          (CanReceive(c) /\ OnFrame(c, m).pub # NoPub) =>
            /\ Handshake(c).ok
            /\ OnFrame(c, m).pub.ev.userEmail = Handshake(c).data.userEmail
            /\ OnFrame(c, m).pub.ev.decisionId = Handshake(c).data.decisionId
            /\ OnFrame(c, m).pub.ev.verticalKey = Handshake(c).data.verticalKey
            /\ OnFrame(c, m).pub.room = Handshake(c).data.room)
  /\ [][\A c \in Conns :
          (data[c] # NoData /\ data'[c] # NoData) => data'[c] = data[c]]_vars

C26_Witness ==
  \E c \in Conns, m \in SpoofFrames :
    /\ CanReceive(c) /\ OnFrame(c, m).pub.to # {}
    /\ OnFrame(c, m).pub.ev.type = "chat"
    /\ OnFrame(c, m).pub.ev.userEmail = alice /\ m.userEmail = bob

\* the handler of c answers frame m by closing c
Rejects(c, m) == CanReceive(c) /\ OnFrame(c, m).close # 0

\* C27: the handling of a frame the handler rejects stores no name,
\* publishes nothing and leaves the stored names and the registration of
\* every other connection as they were.
C27_RejectionHasNoEffect ==
  [][\A c \in Conns, m \in Frames :
       (Rejects(c, m) /\ Handle(c, m)) =>
         /\ OnFrame(c, m).put = <<>> /\ OnFrame(c, m).pub = NoPub
         /\ storage' = storage
         /\ activePeers' = activePeers
         /\ \A k \in Conns \ {c} :
              /\ st'[k] = st[k] /\ data'[k] = data[k]
              /\ topics'[k] = topics[k]
              /\ InSessions(k)' <=> InSessions(k)]_vars

C27_Witness ==
  \E c, k \in Conns :
    /\ c # k /\ st[c] = "closing" /\ data[c] # NoData
    /\ closeCode[c] \in {CodeInvalid, CodeTooLarge}
    /\ st[k] = "open" /\ named[k] # <<>>
    /\ storage[InstanceOf(k)][data[k].userEmail] = named[k]

\* C28: verifyHmacToken returns false, and does not throw, on every
\* non-empty signature string that is not an even number of hex digits.
C28_VerifierNeverThrows ==
  (probe.fn = "sign" /\ ~probe.hex) => ~probe.threw /\ ~probe.out

\* C29: in index.ts an identity with an open, subscribed connection is
\* mapped to that connection by activePeers: the close or error event of a
\* superseded connection leaves the entry of its successor alone.
C29_ActivePeerTracksLive ==
  variant = "do" =>
    \A c \in Conns :
      (st[c] = "open" /\ data[c] # NoData /\ topics[c] # {}) =>
        activePeers[data[c].userEmail] = c

\* the close or error event of connection c is handled
TeardownStep(c) ==
  \/ DoClose(c) \/ DoError(c) \/ UpClose(c) \/ UpError(c)
  \/ webSocketClose(c) \/ \E listenerFirst \in BOOLEAN : webSocketError(c, listenerFirst)

\* the name stored for the identity of connection k on k's instance
StoredFor(k) == storage[InstanceOf(k)][data[k].userEmail]

\* C30: the teardown of a connection does not delete the name an open
\* connection other than it has stored, also when both carry the same
\* identity.
C30_LiveKeepsName ==
  [][\A c, k \in Conns :
       ( /\ k # c /\ TeardownStep(c)
         /\ st[k] = "open" /\ data[k] # NoData
         /\ named[k] # <<>> /\ StoredFor(k) = named[k] ) =>
         StoredFor(k)' = named[k]]_vars

FirstFrame == Frame(FALSE, TRUE, "name", TRUE, PaddedName, 32, 0)

C33_SenderSeesOwnChat ==
  \A c \in Conns, m \in Frames :
    (CanReceive(c) /\ st[c] = "open" /\ OnFrame(c, m).pub.ev.type = "chat") =>
      /\ c \in OnFrame(c, m).pub.to
      /\ Live(OnFrame(c, m).pub.room) \subseteq OnFrame(c, m).pub.to

\* the useWebSocket instances whose socket is opening or open
Sockets == {i \in Calls : client.inst[i].state \in {"connecting", "open"}}

\* C34: a useWS instance has at most one socket that is opening or open,
\* whatever connect() calls are made and whenever.
C34_ConnectsOnce == Cardinality(Sockets) <= 1

\* C35: isConnected is true exactly when status is CONNECTED.
C35_StatusConsistent == client.isConnected <=> client.status = "CONNECTED"

\* C36: the first message that goes out on a connection is the name
\* message, so no chat goes out before the name; and a sendChat made while
\* the client is not connected sends and buffers nothing.
C36_NameFirst ==
  /\ \A i \in Calls :
       client.inst[i].sent # <<>> => client.inst[i].sent[1] = "name"
  /\ ~client.isConnected => chatSent = client.inst

\* no connect() call is waiting and no socket is opening or closing
Settled ==
  /\ \A k \in Calls : client.pc[k] \in {"none", "done"}
  /\ \A i \in Calls : client.inst[i].state \notin {"connecting", "closing"}

\* C37: once disconnect() was called, and no connect() was called after it,
\* the client ends disconnected: isConnected false, status DISCONNECTED, no
\* socket open.
C37_DisconnectFinal ==
  (client.final /\ Settled) =>
    /\ ~client.isConnected
    /\ client.status = "DISCONNECTED"
    /\ Sockets = {}

\* an upgrade of part_000 is waiting for its open hook
UpgradePending == \E c \in Conns : st[c] = "upgraded"

\* C38: an entry of peerConnectionData belongs to an upgrade whose open hook
\* has not run yet: the open hook removes it, and with no upgrade pending
\* the map is empty.
C38_NoTempLeak ==
  variant = "up" =>
    /\ \A c \in Conns : peerConnectionData[c] # NoData => st[c] = "upgraded"
    /\ ~UpgradePending => peerConnectionData = [c \in Conns |-> NoData]

====
